---- MODULE Spec2Model ----
(***************************************************************************)
(* A model of the AI Blog Idea Brainstormer (src/main.py): the Streamlit   *)
(* session state, the two user actions of main() (the form submission and  *)
(* the per-idea Select button), and the response parser of                 *)
(* generate_blog_ideas.                                                    *)
(*                                                                         *)
(* Text is modelled as a sequence of one-character strings, so that        *)
(* strip(), split('\n') and the regular expression are computed character  *)
(* by character as Python computes them.                                   *)
(***************************************************************************)
EXTENDS Integers, Sequences, FiniteSets, TLC

(***************************************************************************)
(* Bounds of the model.                                                    *)
(***************************************************************************)
\* Longest raw response the parser specification enumerates.
MaxLen == 6
\* Most Completion Client calls made in one session.
MaxCalls == 4

(***************************************************************************)
(* Characters.                                                             *)
(***************************************************************************)
NL == "\n"
\* What \d matches.
Digits == {"1", "2", "3", "4"}
\* What str.strip() removes and what \s matches.
Whitespace == {" ", NL}
\* Every character of the model's texts.
Chars == Digits \cup Whitespace \cup {".", ":", "a", "b", "c", "d"}
\* What '.' matches and what split('\n') leaves inside a piece.
NotNL == Chars \ {NL}
\* The characters the parser specification builds raw responses from.
Alphabet == {"1", "2", ".", " ", "a", NL}

Drop(s, n) == SubSeq(s, n + 1, Len(s))

RECURSIVE Run(_, _)
\* Length of the longest prefix of s made of characters of set.
Run(s, set) ==
    IF s # <<>> /\ Head(s) \in set THEN 1 + Run(Tail(s), set) ELSE 0

Reverse(s) == [i \in 1..Len(s) |-> s[Len(s) + 1 - i]]

\* str.strip(): leading and trailing whitespace removed.
Strip(s) ==
    LET l == Drop(s, Run(s, Whitespace))
    IN  SubSeq(l, 1, Len(l) - Run(Reverse(l), Whitespace))

RECURSIVE Split(_)
\* str.split('\n'): the pieces between newlines; never an empty list.
Split(s) ==
    LET n == Run(s, NotNL)
    IN  IF n = Len(s) THEN <<s>>
        ELSE <<SubSeq(s, 1, n)>> \o Split(Drop(s, n + 1))

(***************************************************************************)
(* re.match(r'^\d+\.?\s*(.+)$', line): a backtracking matcher.  Each       *)
(* quantifier is greedy and gives characters back, one at a time, when the *)
(* rest of the pattern fails.  The result is group(1), or NoMatch.         *)
(***************************************************************************)
\* group(1) holds at least one character, so the empty text is free to mean
\* "no match" (the code tests `match and match.group(1)`).
NoMatch == <<>>

\* (.+)$ : one or more characters other than a newline, up to the end.
MatchRest(s) ==
    IF s # <<>> /\ Run(s, NotNL) = Len(s) THEN s ELSE NoMatch

RECURSIVE MatchSpace(_, _)
\* \s* taking w characters, then (.+)$; on failure \s* gives one back.
MatchSpace(s, w) ==
    LET r == MatchRest(Drop(s, w))
    IN  IF r # NoMatch THEN r
        ELSE IF w > 0 THEN MatchSpace(s, w - 1)
        ELSE NoMatch

\* \.? taking the period when there is one, then trying without it.
MatchPeriod(s) ==
    LET with == IF s # <<>> /\ Head(s) = "."
                THEN MatchSpace(Tail(s), Run(Tail(s), Whitespace))
                ELSE NoMatch
    IN  IF with # NoMatch THEN with
        ELSE MatchSpace(s, Run(s, Whitespace))

\* Variant: \d+ never gives a digit back (a possessive quantifier).
MatchDigitsPossessive(s, n) ==
    IF n < 1 THEN NoMatch ELSE MatchPeriod(Drop(s, n))

RECURSIVE MatchDigits(_, _)
\* \d+ taking n digits; on failure it gives one back, down to one digit.
MatchDigits(s, n) ==
    IF n < 1 THEN NoMatch
    ELSE LET r == MatchPeriod(Drop(s, n))
         IN  IF r # NoMatch THEN r ELSE MatchDigits(s, n - 1)

RECURSIVE ReSearch(_)
\* Variant: re.search with the pattern's ^ lost, the first numeral anywhere.
ReSearch(line) ==
    IF line = <<>> THEN NoMatch
    ELSE LET r == MatchDigits(line, Run(line, Digits))
         IN  IF r # NoMatch THEN r ELSE ReSearch(Tail(line))

ReMatch(line) == MatchDigits(line, Run(line, Digits))

RECURSIVE ProcessLines(_)
\* The loop of generate_blog_ideas over the lines of the response.
ProcessLines(lines) ==
    IF lines = <<>> THEN <<>>
    ELSE LET match == ReMatch(Strip(Head(lines)))
         IN  (IF match # NoMatch THEN <<match>> ELSE <<>>)
             \o ProcessLines(Tail(lines))

\* What generate_blog_ideas returns for a raw response.
ParseIdeas(response) == ProcessLines(Split(Strip(response)))

(***************************************************************************)
(* The session.                                                            *)
(***************************************************************************)
VARIABLES
    apiKey,           \* os.getenv('OPEN_API_KEY'); "" when unset or empty
    topic,            \* st.session_state.topic
    audience,         \* st.session_state.audience
    tone,             \* st.session_state.tone
    generated_ideas,  \* st.session_state.generated_ideas
    selected_idea,    \* st.session_state.selected_idea
    outline,          \* st.session_state.outline
    form,             \* main's locals topic, audience, tone: the submitted form
    response,         \* generate_blog_ideas' local: the raw text of chain.run
    ideas,            \* what generate_blog_ideas returned to main
    op,               \* the widget that triggered the last script run; for a
                      \* Select button, key is the entry's position from 1
    message,          \* the error the last script run showed, or "none"
    buttons,          \* how many Select buttons the last script run rendered
    calls,            \* history: Completion Client calls made so far
    ideasRequest      \* history: the arguments of the call that produced generated_ideas

session == <<topic, audience, tone, generated_ideas, selected_idea, outline>>
vars == <<apiKey, topic, audience, tone, generated_ideas, selected_idea, outline,
          form, response, ideas, op, message, buttons, calls, ideasRequest>>

\* Python's None, among ideas (an idea is never the empty text).
None == <<>>
\* `ideas` and `response` before generate_blog_ideas assigned them.
Unassigned == <<<<>>>>

tone_options == {"Casual", "Professional", "Humorous", "Informative", "Inspirational"}

\* str.lower() on the session's tone.
Lower(t) ==
    CASE t = "Casual" -> "casual"
      [] t = "Professional" -> "professional"
      [] t = "Humorous" -> "humorous"
      [] t = "Informative" -> "informative"
      [] t = "Inspirational" -> "inspirational"
      [] OTHER -> t

\* The form fields the model submits.
Topics == {"", "travel", "tech"}
Audiences == {"", "beginners"}
ToneInputs == {t \in tone_options : t \in {"Casual", "Professional"}}

\* st.session_state.outline = "": no outline held.
NoOutline ==
    [text |-> "", idea |-> None, topic |-> "", audience |-> "", tone |-> "", call |-> 0]

\* The text chain.run returns for the outline prompt.  The text is opaque to
\* the program; the model keeps with it the prompt fields it answers and the
\* number of the call that returned it, so two responses are never confused.
\* An empty response is the empty string whatever the prompt was.
OutlineText(text, idea, t, a, tn, n) ==
    IF text = "" THEN NoOutline
    ELSE [text |-> text, idea |-> idea, topic |-> t, audience |-> a, tone |-> tn,
          call |-> n]

NoRequest == [topic |-> "", audience |-> "", tone |-> ""]

\* Raw idea responses the Completion Client returns in the session model.
ThreeIdeas == <<"1", ".", " ", "a", NL, "2", ".", " ", "b", NL, "3", ".", " ", "c">>
IdeasAfterPreamble ==
    <<"a", ":", NL, NL, "1", ".", "d", NL, "2", " ", "c", NL, "3", ".", " ", "b", NL,
      "4", ".", "a", NL>>
TwoIdeas == <<"1", ".", " ", "a", NL, "2", ".", " ", "b">>
Prose == <<"a", " ", "b">>
IdeaResponses == {ThreeIdeas, IdeasAfterPreamble, TwoIdeas, Prose}

\* What a chain.run call does: it returns a text or it raises.
Return(text) == [ok |-> TRUE, text |-> text]
Raise == [ok |-> FALSE]

\* Variant: the audience is not required.
TopicMissing(t, a) == t = ""

\* `if not topic or not audience`
InputMissing(t, a) == t = "" \/ a = ""

\* Variant: the key is not tested before the client is built.
CredentialUnchecked == TRUE

\* `if not api_key` in setup_openai_client, negated
HasCredential == apiKey # ""

MinIdeas == 3

\* Variant: any non-empty list is accepted.
AcceptedNonEmpty(list) == list # <<>>

\* Variant: exactly MinIdeas entries are not enough.
AcceptedOverMin(list) == list # <<>> /\ Len(list) > MinIdeas

\* `if ideas and len(ideas) >= 3`
Accepted(list) == list # <<>> /\ Len(list) >= MinIdeas

Init ==
    /\ apiKey \in {"", "sk"}
    /\ topic = "" /\ audience = "" /\ tone = ""
    /\ generated_ideas = <<>>
    /\ selected_idea = None
    /\ outline = NoOutline
    /\ form = [topic |-> "", audience |-> "", tone |-> "Casual"]
    /\ response = Unassigned
    /\ ideas = Unassigned
    /\ op = [widget |-> "none", key |-> 0]
    /\ message = "none"
    /\ buttons = 0
    /\ calls = 0
    /\ ideasRequest = NoRequest

(***************************************************************************)
(* "Generate Blog Ideas": one script run with generate_button true.        *)
(* result is what chain.run does in this run, when it is reached.  The     *)
(* keywords field only adds a clause to the prompt text, which the model   *)
(* does not carry, so it is not among the inputs.                          *)
(***************************************************************************)
SubmitForm(t, a, tn, result) ==
    /\ op' = [widget |-> "form", key |-> 0]
    /\ form' = [topic |-> t, audience |-> a, tone |-> tn]
    /\ UNCHANGED apiKey
    /\ IF InputMissing(t, a)
       THEN \* st.error; the run goes on to render the held ideas
            /\ message' = "InvalidInput"
            /\ response' = Unassigned /\ ideas' = Unassigned
            /\ buttons' = Len(generated_ideas)
            /\ UNCHANGED <<session, calls, ideasRequest>>
       ELSE /\ topic' = t /\ audience' = a /\ tone' = tn
            /\ IF ~HasCredential
               THEN \* setup_openai_client: st.error, st.stop()
                    /\ message' = "MissingCredential"
                    /\ response' = Unassigned /\ ideas' = Unassigned
                    /\ buttons' = 0
                    /\ UNCHANGED <<generated_ideas, selected_idea, outline, calls,
                                   ideasRequest>>
               ELSE /\ calls < MaxCalls
                    /\ calls' = calls + 1
                    /\ IF ~result.ok
                       THEN \* the exception ends the script run
                            /\ message' = "ServiceError"
                            /\ response' = Unassigned /\ ideas' = Unassigned
                            /\ buttons' = 0
                            /\ UNCHANGED <<generated_ideas, selected_idea, outline,
                                           ideasRequest>>
                       ELSE /\ response' = result.text
                            /\ ideas' = ParseIdeas(result.text)
                            /\ IF Accepted(ideas')
                               THEN /\ generated_ideas' = ideas'
                                    /\ selected_idea' = None
                                    /\ outline' = NoOutline
                                    /\ ideasRequest' =
                                         [topic |-> t, audience |-> a, tone |-> Lower(tn)]
                                    /\ message' = "none"
                               ELSE /\ message' = "InsufficientIdeas"
                                    /\ UNCHANGED <<generated_ideas, selected_idea,
                                                   outline, ideasRequest>>
                            /\ buttons' = Len(generated_ideas')

(***************************************************************************)
(* "Select" on entry i: one script run with button btn_(i-1) true.  The    *)
(* button exists only if the last run rendered it.  result is what         *)
(* chain.run does in this run, when it is reached.                         *)
(***************************************************************************)
SelectIdea(i, result) ==
    /\ generated_ideas # <<>>
    /\ i \in 1..buttons
    /\ op' = [widget |-> "button", key |-> i]
    /\ selected_idea' = generated_ideas[i]
    /\ UNCHANGED <<apiKey, topic, audience, tone, generated_ideas, form, response,
                   ideas, ideasRequest>>
    /\ IF ~HasCredential
       THEN /\ message' = "MissingCredential"
            /\ buttons' = i
            /\ UNCHANGED <<outline, calls>>
       ELSE /\ calls < MaxCalls
            /\ calls' = calls + 1
            /\ IF ~result.ok
               THEN \* the exception ends the run inside the loop, after button i
                    /\ message' = "ServiceError"
                    /\ buttons' = i
                    /\ UNCHANGED outline
               ELSE /\ outline' = OutlineText(result.text, generated_ideas[i], topic,
                                              audience, Lower(tone), calls')
                    /\ message' = "none"
                    /\ buttons' = Len(generated_ideas)

Next ==
    \/ \E t \in Topics, a \in Audiences, tn \in ToneInputs,
          result \in {Return(r) : r \in IdeaResponses} \cup {Raise} :
          SubmitForm(t, a, tn, result)
    \/ \E i \in 1..Len(generated_ideas),
          result \in {Return(""), Return("outline"), Raise} :
          SelectIdea(i, result)

Spec == Init /\ [][Next]_vars

(***************************************************************************)
(* The parser on its own: generate_blog_ideas from the point where         *)
(* chain.run has returned, for every raw response up to MaxLen characters. *)
(***************************************************************************)
RECURSIVE Texts(_)
Texts(n) ==
    IF n = 0 THEN {<<>>}
    ELSE LET shorter == Texts(n - 1)
         IN  shorter \cup {Append(t, c) : t \in {u \in shorter : Len(u) = n - 1},
                                          c \in Alphabet}

ParseInit ==
    /\ apiKey = "sk"
    /\ topic = "" /\ audience = "" /\ tone = ""
    /\ generated_ideas = <<>>
    /\ selected_idea = None
    /\ outline = NoOutline
    /\ form = [topic |-> "", audience |-> "", tone |-> "Casual"]
    /\ response \in Texts(MaxLen)
    /\ ideas = Unassigned
    /\ op = [widget |-> "none", key |-> 0]
    /\ message = "none"
    /\ buttons = 0
    /\ calls = 1
    /\ ideasRequest = NoRequest

ParseResponse ==
    /\ ideas = Unassigned
    /\ ideas' = ParseIdeas(response)
    /\ UNCHANGED <<apiKey, session, form, response, op, message, buttons, calls,
                   ideasRequest>>

ParseSpec == ParseInit /\ [][ParseResponse]_vars
(***************************************************************************)
(* Properties of the session.                                              *)
(***************************************************************************)
Entries(list) == {list[k] : k \in 1..Len(list)}

OutlineRequest == [topic |-> outline.topic, audience |-> outline.audience,
                   tone |-> outline.tone]

\* C1: a non-empty held outline is the outline generated for the currently
\* held selected idea; it is never held with no selection or with another
\* selected idea.
C1_OutlineOfSelection ==
    outline # NoOutline =>
        selected_idea # None /\ outline.idea = selected_idea

\* C2: the topic, audience and tone a held outline was generated with are
\* those of the request whose response produced the held idea list.
C2_OutlineOfIdeasRequest ==
    outline # NoOutline => OutlineRequest = ideasRequest

\* C3: a Select on entry i always makes entry i the selection and replaces a
\* held outline: after the action the outline is not the one held before.
C3_SelectReplaces ==
    [][op'.widget = "button" =>
          /\ selected_idea' = generated_ideas[op'.key]
          /\ outline # NoOutline => outline' # outline]_vars

\* C4: a submission whose call returned is accepted iff the parser returned at
\* least 3 entries; with fewer, an error is shown and the idea list, selection
\* and outline are what they were; with 3 or more, the idea list is the parsed
\* sequence and the selection and outline are cleared.
C4_AcceptedIffThree ==
    [][(op'.widget = "form" /\ ideas' # Unassigned) =>
          /\ (message' = "none") <=> (Len(ideas') >= 3)
          /\ Len(ideas') < 3 =>
                /\ message' = "InsufficientIdeas"
                /\ UNCHANGED <<generated_ideas, selected_idea, outline>>
          /\ Len(ideas') >= 3 =>
                /\ generated_ideas' = ideas'
                /\ selected_idea' = None
                /\ outline' = NoOutline]_vars

\* C4's case: fewer than 3 parsed entries are discarded while an idea list and
\* an outline are held.
C4_Witness ==
    /\ op.widget = "form" /\ message = "InsufficientIdeas"
    /\ ideas # Unassigned /\ Len(ideas) = 2
    /\ generated_ideas # <<>> /\ outline # NoOutline

\* C5: an action whose Completion Client call fails makes exactly one call and
\* leaves every session field as it was.
C5_NoPartialState ==
    [][message' = "ServiceError" =>
          calls' = calls + 1 /\ UNCHANGED session]_vars

\* C6: with the credential missing no Completion Client call is ever made and
\* no idea list or outline is ever held.
C6_NoCallWithoutCredential ==
    apiKey = "" =>
        calls = 0 /\ generated_ideas = <<>> /\ outline = NoOutline

\* C6's case: a generation was asked for and halted on the missing credential.
C6_Witness == apiKey = "" /\ message = "MissingCredential" /\ op.widget = "form"

\* C7: a submission with an empty topic or an empty audience shows the
\* InvalidInput error, makes no call and leaves every session field unchanged.
C7_InvalidInputBlocked ==
    [][(op'.widget = "form" /\ (form'.topic = "" \/ form'.audience = "")) =>
          /\ message' = "InvalidInput"
          /\ calls' = calls
          /\ UNCHANGED session]_vars

\* C7's case: an invalid submission made while ideas and an outline are held.
C7_Witness ==
    /\ op.widget = "form" /\ message = "InvalidInput"
    /\ form.topic # "" /\ form.audience = ""
    /\ generated_ideas # <<>> /\ outline # NoOutline

\* C10: the held idea list is empty or has at least 3 entries, and the held
\* selected idea is unset or an entry of the held idea list.
C10_IdeasAndSelection ==
    /\ generated_ideas = <<>> \/ Len(generated_ideas) >= 3
    /\ selected_idea = None \/ selected_idea \in Entries(generated_ideas)

\* C10's case: a selection is held from a list of more than 3 entries that
\* replaced an earlier list.
C10_Witness ==
    /\ selected_idea # None /\ Len(generated_ideas) = 4
    /\ calls >= 3

(***************************************************************************)
(* Properties of the parser, stated without the matcher: what the pattern  *)
(* ^\d+\.?\s*(.+)$ accepts, and what stripping a list marker leaves.       *)
(***************************************************************************)
\* The trimmed lines of the response, as the loop sees them.
TrimmedLines ==
    LET lines == Split(Strip(response))
    IN  [k \in 1..Len(lines) |-> Strip(lines[k])]

\* Some way of reading l as digits, an optional period, whitespace and a
\* non-empty remainder exists.
Numbered(l) ==
    \E n \in 1..Len(l), p \in {0, 1}, w \in 0..Len(l) :
        /\ n + p + w < Len(l)
        /\ \A j \in 1..n : l[j] \in Digits
        /\ p = 1 => l[n + 1] = "."
        /\ \A j \in (n + p + 1)..(n + p + w) : l[j] \in Whitespace
        /\ \A j \in (n + p + w + 1)..Len(l) : l[j] \in NotNL

\* l without its whole leading digit run, one period after it if there is
\* one, and the whitespace that follows.
StripMarker(l) ==
    LET afterDigits == Drop(l, Run(l, Digits))
        afterPeriod == IF afterDigits # <<>> /\ Head(afterDigits) = "."
                       THEN Tail(afterDigits) ELSE afterDigits
    IN  Drop(afterPeriod, Run(afterPeriod, Whitespace))

IsSuffix(s, l) == Len(s) <= Len(l) /\ s = Drop(l, Len(l) - Len(s))

AllNumbered(lines) == \A k \in 1..Len(lines) : Numbered(lines[k])

\* C8, as claimed: when every trimmed line matches the pattern, the parser
\* returns one entry per line, in order, each the line with its entire digit
\* run, the optional period and the following whitespace removed.
C8_MarkerStripped ==
    LET lines == TrimmedLines
    IN  (ideas # Unassigned /\ AllNumbered(lines)) =>
            /\ Len(ideas) = Len(lines)
            /\ \A k \in 1..Len(ideas) : ideas[k] = StripMarker(lines[k])

\* C8, amended: one entry per line, in order; the entry is the line with its
\* marker removed when that leaves something, and otherwise (a bare numeral
\* of two or more digits, or a numeral and a period) the line's last
\* character, which the pattern's backtracking hands to the captured group.
C8_MarkerStrippedOrLastChar ==
    LET lines == TrimmedLines
    IN  (ideas # Unassigned /\ AllNumbered(lines)) =>
            /\ Len(ideas) = Len(lines)
            /\ \A k \in 1..Len(ideas) :
                  LET l == lines[k]
                      rest == StripMarker(l)
                  IN  ideas[k] = IF rest # <<>> THEN rest ELSE <<l[Len(l)]>>

\* C8's case: a parsed response of several lines, all matching, one with text
\* after its marker and one with nothing after it.
C8_Witness ==
    LET lines == TrimmedLines
    IN  /\ ideas # Unassigned /\ AllNumbered(lines)
        /\ Len(lines) >= 2
        /\ \E k \in 1..Len(lines) : StripMarker(lines[k]) # <<>>
        /\ \E k \in 1..Len(lines) : StripMarker(lines[k]) = <<>>

\* C9: the output has one entry for each numbered line and none for any other
\* line, in the order of the lines: entry k is a non-empty ending of the k-th
\* numbered line.
C9_OnlyNumberedLinesInOrder ==
    ideas # Unassigned =>
        LET kept == SelectSeq(TrimmedLines, Numbered)
        IN  /\ Len(ideas) = Len(kept)
            /\ \A k \in 1..Len(ideas) :
                  /\ ideas[k] # <<>>
                  /\ IsSuffix(ideas[k], kept[k])
                  /\ Len(ideas[k]) < Len(kept[k])

\* C9's case: a line that is dropped (blank or unnumbered) stands between
\* numbered lines, so that the output is shorter than the line count.
C9_Witness ==
    LET lines == TrimmedLines
    IN  /\ ideas # Unassigned
        /\ Len(ideas) >= 2
        /\ Len(ideas) < Len(lines)
        /\ \E j \in 2..(Len(lines) - 1) : ~Numbered(lines[j])
====
